---- MODULE Spec2Model ----
(***************************************************************************)
(* The resource-to-REST reconciliation engine of tower-cli                 *)
(* (lib/tower_cli/models.py: Resource.read / get / _lookup / write /       *)
(* create / modify / delete) running against a remote record store that    *)
(* other clients may change between two requests of one operation.         *)
(***************************************************************************)
EXTENDS Integers, Sequences, FiniteSets, TLC

\* Field values are 1..MaxVal; ids the server hands out are 1..MaxId.
MaxVal == 2
MaxId == 2

\* The HTTP status codes a response may carry.
MinStatus == 100
MaxStatus == 599

\* Python's None: an unset option, a null JSON value, an omitted pk.
None == 0

Vals == 1..MaxVal
Ids == 1..MaxId

(***************************************************************************)
(* Field descriptors and resource schemas (Field, ResourceMeta).           *)
(***************************************************************************)

\* Field(unique=..., required=...): required defaults to True, unique to False.
Field(name, unique, required) ==
    [name |-> name, unique |-> unique, required |-> required]

\* The resource kinds the engine is run with.  "team" carries the unique and
\* the required-but-not-unique field of resources/team.py; "user" is the
\* schema with one unique required field and one optional field; "plain" is a
\* schema none of whose fields is unique.
Kinds == {"user", "team", "plain"}

fields(k) ==
    CASE k = "user" -> { Field("username", TRUE, TRUE),
                         Field("email", FALSE, FALSE) }
      [] k = "team" -> { Field("name", TRUE, TRUE),
                         Field("organization", FALSE, TRUE) }
      [] OTHER      -> { Field("name", FALSE, TRUE) }

FieldNames(k) == { f.name : f \in fields(k) }

\* ResourceMeta.__new__: unique_fields collects the names of the unique fields.
unique_fields(k) == { f.name : f \in { g \in fields(k) : g.unique } }

\* Resource.write: required_fields = [i.name for i in self.fields if i.required]
required_fields(k) == { f.name : f \in { g \in fields(k) : g.required } }

(***************************************************************************)
(* Keyword maps.                                                           *)
(***************************************************************************)

\* Every keyword map over the fields of kind k: a key may be absent, present
\* with None, or present with a value.
KwargsOf(k) ==
    UNION { [S -> {None} \cup Vals] : S \in SUBSET FieldNames(k) }

Restrict(f, S) == [x \in S |-> f[x]]

Empty == [x \in {} |-> None]

\* dict.get(k, None)
Get(d, k) == IF k \in DOMAIN d THEN d[k] ELSE None

\* Python truthiness of a dict: {} is false.
Truthy(d) == DOMAIN d # {}

(***************************************************************************)
(* The remote store and the transport (api.Client.request).                *)
(* A store is a function from the ids of the records that exist to their   *)
(* data, a function from the kind's field names to a value or None.        *)
(***************************************************************************)

\* Statuses with which the server may refuse any request, one of each class
\* Client.request tells apart.
FaultStatuses == {400, 401, 403, 404, 500}

\* 0: the server processes the request; otherwise it answers this status.
Faults == {0} \cup FaultStatuses

\* A transport that knows one kind of error only.
request_exc_coarse(status) == IF status >= 400 THEN "BadRequest" ELSE ""

\* Client.request: the exception a response status is turned into ("": none).
request_exc(status) ==
    IF status >= 500 THEN "ServerError"
    ELSE IF status = 401 THEN "AuthError"
    ELSE IF status = 403 THEN "Forbidden"
    ELSE IF status = 404 THEN "NotFound"
    ELSE IF status >= 400 THEN "BadRequest"
    ELSE ""

\* `except exc.NotFound`: whether an exception of kind e is caught by a handler
\* for class c.  The error kinds are sibling classes.
ExcIsA(e, c) == e = c

\* The JSON object of record i: its fields and its id.
Obj(st, i) ==
    [x \in DOMAIN st[i] \cup {"id"} |-> IF x = "id" THEN i ELSE st[i][x]]

\* The records a list request with query parameters `params` matches.  A
\* parameter whose value is None is not sent.
Matches(st, params) ==
    { i \in DOMAIN st :
        \A f \in DOMAIN params : params[f] = None \/ st[i][f] = params[f] }

\* The ids of S in increasing order.
IdSeq(S) ==
    CHOOSE q \in [1..Cardinality(S) -> S] :
        \A a, b \in 1..Cardinality(S) : a < b => q[a] < q[b]

\* The results array of a list response: the matching records by id.
Results(st, S) == [n \in 1..Cardinality(S) |-> Obj(st, IdSeq(S)[n])]

\* One entry of the request trace of an operation.
Req(method, pk, status, count, data) ==
    [method |-> method, pk |-> pk, status |-> status, count |-> count,
     data |-> data]

\* The store after POST endpoint/ with body `data`, creating record `id`.
Posted(k, st, id, data) ==
    [i \in DOMAIN st \cup {id} |->
        IF i = id THEN [f \in FieldNames(k) |-> Get(data, f)] ELSE st[i]]

\* The store after PATCH endpoint/{pk}/ with body `data`.
Patched(st, pk, data) ==
    [st EXCEPT ![pk] =
        [f \in DOMAIN st[pk] |-> IF f \in DOMAIN data THEN data[f] ELSE st[pk][f]]]

\* The store after DELETE endpoint/{pk}/.
Deleted(st, pk) == [i \in DOMAIN st \ {pk} |-> st[i]]

(***************************************************************************)
(* Resource.read, Resource.get, Resource._lookup.                          *)
(* An operator returns a record whose exc field names the exception it     *)
(* raised ("" when it returned) and whose reqs field is the requests made. *)
(***************************************************************************)

\* The status of GET endpoint/{pk}/.
detail_status(st, pk, fault) ==
    IF fault # 0 THEN fault ELSE IF pk \in DOMAIN st THEN 200 ELSE 404

\* The status of GET endpoint/.
list_status(fault) == IF fault # 0 THEN fault ELSE 200

Response(exc, count, results, rq) ==
    [exc |-> exc, count |-> count, results |-> results, reqs |-> <<rq>>]

\* read with a primary key: {'count': 1, 'results': [resp]}.
read_detail(st, pk, kwargs, status) ==
    IF request_exc(status) # ""
    THEN Response(request_exc(status), 0, <<>>,
                  Req("GET", pk, status, 0, kwargs))
    ELSE Response("", 1, <<Obj(st, pk)>>, Req("GET", pk, status, 0, kwargs))

\* A read without a primary key that never checks for several results.
read_list_unchecked(st, fail_on_no_results, fail_on_multiple_results, kwargs, status, count) ==
    IF request_exc(status) # ""
    THEN Response(request_exc(status), 0, <<>>,
                  Req("GET", None, status, 0, kwargs))
    ELSE IF fail_on_no_results /\ count = 0
    THEN Response("NotFound", count, <<>>,
                  Req("GET", None, status, count, kwargs))
    ELSE Response("", count, Results(st, Matches(st, kwargs)),
                  Req("GET", None, status, count, kwargs))

\* read without a primary key: the count checks on the list response.
read_list(st, fail_on_no_results, fail_on_multiple_results, kwargs, status, count) ==
    IF request_exc(status) # ""
    THEN Response(request_exc(status), 0, <<>>,
                  Req("GET", None, status, 0, kwargs))
    ELSE IF fail_on_no_results /\ count = 0
    THEN Response("NotFound", count, <<>>,
                  Req("GET", None, status, count, kwargs))
    ELSE IF fail_on_multiple_results /\ count >= 2
    THEN Response("MultipleResults", count, <<>>,
                  Req("GET", None, status, count, kwargs))
    ELSE Response("", count, Results(st, Matches(st, kwargs)),
                  Req("GET", None, status, count, kwargs))

\* A read that treats every request as a list request.
read_as_list(st, pk, fail_on_no_results, fail_on_multiple_results, kwargs, fault) ==
    read_list(st, fail_on_no_results, fail_on_multiple_results, kwargs,
              list_status(fault), Cardinality(Matches(st, kwargs)))

read(st, pk, fail_on_no_results, fail_on_multiple_results, kwargs, fault) ==
    IF pk # None
    THEN read_detail(st, pk, kwargs, detail_status(st, pk, fault))
    ELSE read_list(st, fail_on_no_results, fail_on_multiple_results, kwargs,
                   list_status(fault), Cardinality(Matches(st, kwargs)))

Looked(exc, msg, obj, rq) ==
    [exc |-> exc, msg |-> msg, obj |-> obj, reqs |-> rq]

\* get: return response['results'][0]
first_result(response) ==
    IF response.exc # ""
    THEN Looked(response.exc, "", Empty, response.reqs)
    ELSE Looked("", "", response.results[1], response.reqs)

get(st, pk, kwargs, fault) ==
    first_result(read(st, pk, TRUE, TRUE, kwargs, fault))

\* _lookup: the unique fields among the keyword arguments.
read_params(k, kwargs) ==
    Restrict(kwargs, unique_fields(k) \cap DOMAIN kwargs)

\* A lookup that lets an empty read_params through to get.
no_read_params_never(params) == FALSE

\* _lookup: `if not read_params`.
no_read_params(params) == DOMAIN params = {}

\* A lookup that ignores fail_on_found.
raise_found_never(fail_on_found) == FALSE

\* _lookup: `if fail_on_found: raise exc.Found`.
raise_found(fail_on_found) == fail_on_found

\* A handler that turns every exception into the empty record unless
\* fail_on_missing.
lookup_swallows_any(e, fail_on_missing) == ~fail_on_missing

\* A handler that re-raises every NotFound.
lookup_swallows_never(e, fail_on_missing) == FALSE

\* A handler that turns NotFound into the empty record whatever
\* fail_on_missing says.
lookup_swallows_always(e, fail_on_missing) == ExcIsA(e, "NotFound")

\* _lookup: `except exc.NotFound: if fail_on_missing: raise; return {}`:
\* whether exception e, raised inside the try block, is turned into the
\* empty record.
lookup_swallows(e, fail_on_missing) ==
    ExcIsA(e, "NotFound") /\ ~fail_on_missing

\* _lookup: what its try block raises ("": nothing), given what get did.
lookup_raised(g, fail_on_found) ==
    IF g.exc # "" THEN g.exc
    ELSE IF raise_found(fail_on_found) THEN "Found"
    ELSE ""

\* A try statement that turns whatever the block raised into the empty
\* record.
lookup_try_lenient(g, raised, fail_on_missing) ==
    IF raised = "" THEN Looked("", "", g.obj, g.reqs)
    ELSE Looked("", "", Empty, g.reqs)

\* _lookup: the try statement, given what get did and what the block raised.
lookup_try(g, raised, fail_on_missing) ==
    IF raised = "" THEN Looked("", "", g.obj, g.reqs)
    ELSE IF lookup_swallows(raised, fail_on_missing)
    THEN Looked("", "", Empty, g.reqs)
    ELSE Looked(raised, "", Empty, g.reqs)

\* _lookup, given its read_params.
lookup_by(params, st, fail_on_missing, fail_on_found, fault) ==
    IF no_read_params(params)
    THEN Looked("BadRequest", "which record", Empty, <<>>)
    ELSE lookup_try(get(st, None, params, fault),
                    lookup_raised(get(st, None, params, fault), fail_on_found),
                    fail_on_missing)

_lookup(k, st, fail_on_missing, fail_on_found, kwargs, fault) ==
    lookup_by(read_params(k, kwargs), st, fail_on_missing, fail_on_found,
              fault)

(***************************************************************************)
(* Resource.write up to its write request, and Resource.delete up to its   *)
(* DELETE request.  The outcome is either final (pc = "done": a result or  *)
(* an exception) or a request still to be sent (pc = "send").              *)
(***************************************************************************)

\* A write that keeps the None values.
strip_none_keep(kwargs) == kwargs

\* write: `kwargs.pop(key)` for every value that is None.
strip_none(kwargs) ==
    Restrict(kwargs, { f \in DOMAIN kwargs : kwargs[f] # None })

\* A write that finds no required field missing.
missing_fields_none(k, kwargs) == {}

\* write: missing_fields = [i for i in required_fields if i not in kwargs]
missing_fields(k, kwargs) ==
    { f \in required_fields(k) : f \notin DOMAIN kwargs }

\* write: `if pk and not force_on_exists`.
skip_existing(pk, force_on_exists) == pk # None /\ ~force_on_exists

\* A write that finds nothing to change whatever it was given.
nothing_to_change_always(kwargs, existing_data) == TRUE

\* write: all([kwargs[k] == existing_data.get(k, None) for k in kwargs.keys()])
nothing_to_change(kwargs, existing_data) ==
    \A f \in DOMAIN kwargs : kwargs[f] = Get(existing_data, f)

\* A write that always creates.
write_method_post(pk) == "POST"

\* write: method = 'POST'; if pk: method = 'PATCH'.
write_method(pk) == IF pk # None THEN "PATCH" ELSE "POST"

Raised(exc, msg, missing) ==
    [exc |-> exc, msg |-> msg, missing |-> missing, changed |-> FALSE,
     id |-> None]

\* A result that always reports a change.
returned_changed(changed, id) ==
    [exc |-> "", msg |-> "", missing |-> {}, changed |-> TRUE, id |-> id]

\* An OrderedDict (('changed', c), ('id', i)).
Returned(changed, id) ==
    [exc |-> "", msg |-> "", missing |-> {}, changed |-> changed, id |-> id]

\* delete's {'changed': c} has no id key.
NoId == -1

NoResult == Raised("none", "", {})

\* read's return value: {'count': n, 'results': [...]}.
ReadReturned(count, results) ==
    [exc |-> "", msg |-> "", missing |-> {}, changed |-> FALSE, id |-> NoId,
     count |-> count, results |-> results]

\* get's return value: one object.
GetReturned(obj) ==
    [exc |-> "", msg |-> "", missing |-> {}, changed |-> FALSE, id |-> NoId,
     obj |-> obj]

Outcome(pc_, pk_, existing, rq, res) ==
    [pc |-> pc_, pk |-> pk_, existing_data |-> existing, reqs |-> rq,
     result |-> res]

\* write: the record it is to write: _lookup without a primary key, get(pk)
\* with one.
write_target(k, st, pk, create_on_missing, fail_on_found, kwargs, fault) ==
    IF pk = None
    THEN _lookup(k, st, ~create_on_missing, fail_on_found, kwargs, fault)
    ELSE get(st, pk, Empty, fault)

\* A write that never takes the pk of the record its lookup found.
resolved_pk_never(pk, existing_data) == pk

\* write: `if existing_data: pk = existing_data['id']`.
resolved_pk(pk, existing_data) ==
    IF pk = None /\ Truthy(existing_data) THEN existing_data["id"] ELSE pk

\* write: the sanity checks, once pk and existing_data are set.
write_checks(k, pk, force_on_exists, kwargs, existing_data, rq) ==
    IF missing_fields(k, kwargs) # {}
    THEN Outcome("done", pk, existing_data, rq,
                 Raised("BadRequest", "missing required",
                        missing_fields(k, kwargs)))
    ELSE IF skip_existing(pk, force_on_exists)
    THEN Outcome("done", pk, existing_data, rq, Returned(FALSE, pk))
    ELSE IF nothing_to_change(kwargs, existing_data)
    THEN Outcome("done", pk, existing_data, rq, Returned(FALSE, pk))
    ELSE Outcome("send", pk, existing_data, rq, NoResult)

\* write, given its stripped kwargs and the outcome of finding its target.
write_found(k, pk, force_on_exists, kwargs, found) ==
    IF found.exc # ""
    THEN Outcome("done", pk, Empty, found.reqs,
                 Raised(found.exc, found.msg, {}))
    ELSE write_checks(k, resolved_pk(pk, found.obj), force_on_exists, kwargs,
                      found.obj, found.reqs)

write(k, st, pk, create_on_missing, fail_on_found, force_on_exists, kwargs, fault) ==
    write_found(k, pk, force_on_exists, strip_none(kwargs),
                write_target(k, st, pk, create_on_missing, fail_on_found,
                             strip_none(kwargs), fault))

\* delete without a primary key, given the outcome of _lookup.
delete_found(found) ==
    IF found.exc # ""
    THEN Outcome("done", None, Empty, found.reqs,
                 Raised(found.exc, found.msg, {}))
    ELSE IF ~Truthy(found.obj)
    THEN Outcome("done", None, found.obj, found.reqs, Returned(FALSE, NoId))
    ELSE Outcome("send", found.obj["id"], found.obj, found.reqs, NoResult)

delete(k, st, pk, fail_on_missing, kwargs, fault) ==
    IF pk = None
    THEN delete_found(_lookup(k, st, fail_on_missing, FALSE, kwargs, fault))
    ELSE Outcome("send", pk, Empty, <<>>, NoResult)

Sent(st, next, rq, res) ==
    [store |-> st, nextId |-> next, req |-> rq, result |-> res]

\* The status of POST endpoint/ or PATCH endpoint/{pk}/.
write_status(st, pk, fault) ==
    IF fault # 0 THEN fault
    ELSE IF write_method(pk) = "POST" THEN 201
    ELSE IF pk \in DOMAIN st THEN 200 ELSE 404

\* write: r = getattr(client, method.lower())(url, data=kwargs) and the return
\* that follows it.  `next` is the id the server gives the next new record.
write_request(k, st, next, pk, kwargs, status) ==
    IF request_exc(status) # ""
    THEN Sent(st, next, Req(write_method(pk), pk, status, 0, kwargs),
              Raised(request_exc(status), "", {}))
    ELSE IF write_method(pk) = "POST"
    THEN Sent(Posted(k, st, next, kwargs), next + 1,
              Req("POST", pk, status, 0, kwargs), Returned(TRUE, next))
    ELSE Sent(Patched(st, pk, kwargs), next,
              Req("PATCH", pk, status, 0, kwargs), Returned(TRUE, pk))

write_send(k, st, next, pk, kwargs, fault) ==
    write_request(k, st, next, pk, strip_none(kwargs),
                  write_status(st, pk, fault))

\* A delete that raises whatever its DELETE request raised.
delete_tolerates_never(e, fail_on_missing) == FALSE

\* A delete that turns NotFound into {'changed': False} whatever
\* fail_on_missing says.
delete_tolerates_always(e, fail_on_missing) == ExcIsA(e, "NotFound")

\* delete: `except exc.NotFound: if fail_on_missing: raise`.
delete_tolerates(e, fail_on_missing) ==
    ExcIsA(e, "NotFound") /\ ~fail_on_missing

\* The status of DELETE endpoint/{pk}/.
delete_status(st, pk, fault) ==
    IF fault # 0 THEN fault ELSE IF pk \in DOMAIN st THEN 204 ELSE 404

\* delete: client.delete(url) inside its try block, and the returns.
delete_request(st, next, pk, fail_on_missing, status) ==
    IF request_exc(status) = ""
    THEN Sent(Deleted(st, pk), next, Req("DELETE", pk, status, 0, Empty),
              Returned(TRUE, NoId))
    ELSE IF delete_tolerates(request_exc(status), fail_on_missing)
    THEN Sent(st, next, Req("DELETE", pk, status, 0, Empty),
              Returned(FALSE, NoId))
    ELSE Sent(st, next, Req("DELETE", pk, status, 0, Empty),
              Raised(request_exc(status), "", {}))

delete_send(st, next, pk, fail_on_missing, fault) ==
    delete_request(st, next, pk, fail_on_missing, delete_status(st, pk, fault))

(***************************************************************************)
(* The state machine: one client running one operation at a time against   *)
(* the store, and other clients creating and deleting records.             *)
(***************************************************************************)

VARIABLES
    kind,           \* the resource kind the engine is bound to
    store,          \* the remote records
    nextId,         \* the id of the next record the server creates
    call,           \* the operation in progress or just finished
    pc,             \* "idle", "send" (its write request is due) or "done"
    pk,             \* write/delete: the local pk, once resolved
    existing_data,  \* write/delete: the local existing_data
    reqs,           \* the requests the operation has issued, in order
    result,         \* what the operation returned or raised
    raced,          \* another client acted between the requests of the
                    \* operation in progress or just finished
    prev,           \* the create with force_on_exists=False that last created
                    \* a record with no other client acting meanwhile, kept
                    \* while the next operation is a create and no other
                    \* client acts
    _global,        \* Settings: the [general] section of /etc/awx/tower_cli.cfg
    _user,          \* Settings: the [general] section of ~/.tower_cli.cfg
    _runtime,       \* Settings: the [general] section of the runtime parser
    _cache,         \* Settings: the values already read
    remote_job,     \* the job on the server: its status and failed flag
    job,            \* monitor: the job as last polled
    interval,       \* monitor: the local interval
    sleeps,         \* monitor: the intervals slept so far, in order
    jobs,           \* the jobs launch created on the server, by id
    jt,             \* launch: the job template fetched
    job_start_info, \* launch: the start requirements fetched
    peer            \* a second client: its create, where it stands, its
                    \* local pk and existing_data, its requests and result

\* The state of the settings object.
settings_vars == <<_global, _user, _runtime, _cache>>

\* The state of the job resource and of the job on the server.
job_vars == <<remote_job, job, interval, sleeps>>

\* The state of launch and of the jobs it created.
launch_vars == <<jobs, jt, job_start_info>>

\* The state outside the resource engine.
ext == <<settings_vars, job_vars, launch_vars, peer>>

vars ==
    <<kind, store, nextId, call, pc, pk, existing_data, reqs, result, raced,
      prev, ext>>

Call(op, pk_, create_on_missing, fail_on_found, force_on_exists, fail_on_missing, kwargs) ==
    [op |-> op, pk |-> pk_, create_on_missing |-> create_on_missing,
     fail_on_found |-> fail_on_found, force_on_exists |-> force_on_exists,
     fail_on_missing |-> fail_on_missing, kwargs |-> kwargs]

NoCall == Call("none", None, FALSE, FALSE, FALSE, FALSE, Empty)

NoPrev == [id |-> None, kwargs |-> Empty]

\* The records another client may create: the server stores no record without
\* its required fields.
EnvData(k) ==
    { d \in [FieldNames(k) -> {None} \cup Vals] :
        \A f \in required_fields(k) : d[f] # None }

\* The resource engine of one kind, before its first operation.
InitEngine ==
    /\ kind \in Kinds
    /\ store = [i \in {} |-> Empty]
    /\ nextId = 1
    /\ call = NoCall
    /\ pc = "idle"
    /\ pk = None
    /\ existing_data = Empty
    /\ reqs = <<>>
    /\ result = NoResult
    /\ raced = FALSE
    /\ prev = NoPrev

\* A [general] section with no option.
NoOptions == [k \in {} |-> ""]

\* Settings() on a machine with no configuration file.
InitNoFiles ==
    /\ _global = NoOptions
    /\ _user = NoOptions
    /\ _runtime = NoOptions
    /\ _cache = NoOptions

\* A job and the fields of it status() returns.
Job(status, failed) == [status |-> status, failed |-> failed]

\* No job is on the server and none is monitored.
NoJob == Job("", FALSE)

InitNoJob ==
    /\ remote_job = NoJob
    /\ job = NoJob
    /\ interval = 0
    /\ sleeps = <<>>

\* launch has created no job.
InitNoLaunch ==
    /\ jobs = [i \in {} |-> Empty]
    /\ jt = Empty
    /\ job_start_info = Empty

\* A client and the operation it runs.
Client(c, o) ==
    [call |-> c, pc |-> o.pc, pk |-> o.pk, existing_data |-> o.existing_data,
     reqs |-> o.reqs, result |-> o.result]

\* The second client has not run anything.
NoPeer == Client(NoCall, Outcome("idle", None, Empty, <<>>, NoResult))

Init ==
    /\ InitEngine
    /\ InitNoFiles
    /\ InitNoJob
    /\ InitNoLaunch
    /\ peer = NoPeer

\* An operation starts and runs up to its write request, or to its end.
BeginOp(c, o) ==
    /\ pc = "idle"
    /\ call' = c
    /\ pc' = o.pc
    /\ pk' = o.pk
    /\ existing_data' = o.existing_data
    /\ reqs' = o.reqs
    /\ result' = o.result
    /\ raced' = FALSE
    /\ prev' = IF c.op = "create" THEN prev ELSE NoPrev
    /\ UNCHANGED <<kind, store, nextId>>

Begin(c, o) ==
    /\ BeginOp(c, o)
    /\ UNCHANGED ext

\* Resource.write called directly, up to its write request.
WriteCall(pk_, com, fof, foe, kwargs, fault) ==
    Begin(Call("write", pk_, com, fof, foe, FALSE, kwargs),
          write(kind, store, pk_, com, fof, foe, kwargs, fault))

\* Resource.create: write(create_on_missing=True, fail_on_found, force_on_exists).
CreateCall(fof, foe, kwargs, fault) ==
    Begin(Call("create", None, TRUE, fof, foe, FALSE, kwargs),
          write(kind, store, None, TRUE, fof, foe, kwargs, fault))

\* Resource.modify: write(pk, create_on_missing, force_on_exists=True).
ModifyCall(pk_, com, kwargs, fault) ==
    Begin(Call("modify", pk_, com, FALSE, TRUE, FALSE, kwargs),
          write(kind, store, pk_, com, FALSE, TRUE, kwargs, fault))

\* Resource.delete, up to its DELETE request.
DeleteCall(pk_, fom, kwargs, fault) ==
    Begin(Call("delete", pk_, FALSE, FALSE, FALSE, fom, kwargs),
          delete(kind, store, pk_, fom, kwargs, fault))

\* The arguments of a read: those of Call and read's two flags.
ReadArgs(pk_, fail_on_no_results, fail_on_multiple_results, kwargs) ==
    [op |-> "read", pk |-> pk_, create_on_missing |-> FALSE,
     fail_on_found |-> FALSE, force_on_exists |-> FALSE,
     fail_on_missing |-> FALSE, kwargs |-> kwargs,
     fail_on_no_results |-> fail_on_no_results,
     fail_on_multiple_results |-> fail_on_multiple_results]

\* What a read leaves: its request and its return value or exception.
read_outcome(pk_, response) ==
    Outcome("done", pk_, Empty, response.reqs,
            IF response.exc # "" THEN Raised(response.exc, "", {})
            ELSE ReadReturned(response.count, response.results))

\* What a get leaves.
get_outcome(pk_, g) ==
    Outcome("done", pk_, Empty, g.reqs,
            IF g.exc # "" THEN Raised(g.exc, g.msg, {})
            ELSE GetReturned(g.obj))

\* Resource.read.
ReadCall(pk_, fnr, fmr, kwargs, fault) ==
    Begin(ReadArgs(pk_, fnr, fmr, kwargs),
          read_outcome(pk_, read(store, pk_, fnr, fmr, kwargs, fault)))

\* Resource.get.
GetCall(pk_, kwargs, fault) ==
    Begin(Call("get", pk_, FALSE, FALSE, FALSE, FALSE, kwargs),
          get_outcome(pk_, get(store, pk_, kwargs, fault)))

IsWrite(c) == c.op \in {"write", "create", "modify"}

\* The effect of the second request of an operation.
Finish(o) ==
    /\ pc = "send"
    /\ store' = o.store
    /\ nextId' = o.nextId
    /\ reqs' = Append(reqs, o.req)
    /\ result' = o.result
    /\ pc' = "done"
    /\ UNCHANGED <<kind, call, pk, existing_data, raced, prev, ext>>

\* The POST or PATCH of write, and its return.
WriteSend(fault) ==
    /\ IsWrite(call)
    /\ (fault = 0 /\ pk = None) => nextId <= MaxId
    /\ Finish(write_send(kind, store, nextId, pk, call.kwargs, fault))

\* The DELETE of delete, and its return.
DeleteSend(fault) ==
    /\ call.op = "delete"
    /\ Finish(delete_send(store, nextId, pk, call.fail_on_missing, fault))

\* The caller takes the result; the client is ready for its next operation.
Return ==
    /\ pc = "done"
    /\ prev' = IF /\ call.op = "create"
                  /\ ~call.force_on_exists
                  /\ ~raced
                  /\ result.exc = ""
                  /\ result.changed
               THEN [id |-> result.id, kwargs |-> call.kwargs]
               ELSE NoPrev
    /\ call' = NoCall
    /\ pc' = "idle"
    /\ pk' = None
    /\ existing_data' = Empty
    /\ reqs' = <<>>
    /\ result' = NoResult
    /\ raced' = FALSE
    /\ UNCHANGED <<kind, store, nextId, ext>>

\* Other clients act between two operations of this client, and between the
\* two requests of one operation when their step does not commute with the
\* request that is due: a POST is affected by another creation (the id it is
\* given, a second record with the same unique fields), a PATCH or DELETE of
\* record pk by the deletion of pk.  A step that commutes with the due
\* request is taken after the operation.
EnvMayCreate == pc = "idle" \/ (pc = "send" /\ pk = None)
EnvMayDelete(i) == pc = "idle" \/ (pc = "send" /\ pk = i)

\* Another client creates a record.
EnvCreate(d) ==
    /\ EnvMayCreate
    /\ nextId <= MaxId
    /\ store' = Posted(kind, store, nextId, d)
    /\ nextId' = nextId + 1
    /\ raced' = (pc = "send")
    /\ prev' = NoPrev
    /\ UNCHANGED <<kind, call, pc, pk, existing_data, reqs, result, ext>>

\* Another client deletes a record.
EnvDelete(i) ==
    /\ EnvMayDelete(i)
    /\ i \in DOMAIN store
    /\ store' = Deleted(store, i)
    /\ raced' = (pc = "send")
    /\ prev' = NoPrev
    /\ UNCHANGED <<kind, nextId, call, pc, pk, existing_data, reqs, result, ext>>

PkArgs == {None} \cup Ids

\* An operation begins, its first request answered as `f` says; the client
\* runs one operation at a time.
Calls(f) ==
    /\ pc = "idle"
    /\ \E kw \in KwargsOf(kind) :
        \/ \E p \in PkArgs, com, fof, foe \in BOOLEAN :
              WriteCall(p, com, fof, foe, kw, f)
        \/ \E fof, foe \in BOOLEAN : CreateCall(fof, foe, kw, f)
        \/ \E p \in PkArgs, com \in BOOLEAN : ModifyCall(p, com, kw, f)
        \/ \E p \in PkArgs, fom \in BOOLEAN : DeleteCall(p, fom, kw, f)
        \/ \E p \in PkArgs, fnr, fmr \in BOOLEAN : ReadCall(p, fnr, fmr, kw, f)
        \/ \E p \in PkArgs : GetCall(p, kw, f)

\* The write or delete request that is due is sent and answered as `f` says.
Sends(f) ==
    /\ pc = "send"
    /\ \/ WriteSend(f)
       \/ DeleteSend(f)

\* The transport is healthy: the server processes every request.
Next ==
    \/ Calls(0)
    \/ Sends(0)
    \/ Return
    \/ \E d \in EnvData(kind) : EnvCreate(d)
    \/ \E i \in Ids : EnvDelete(i)

Spec == Init /\ [][Next]_vars

\* Client.request returning: the response object, whose status is below 400.
Responded(status) ==
    [exc |-> "", msg |-> "", missing |-> {}, changed |-> FALSE, id |-> NoId,
     status |-> status]

Statuses == MinStatus..MaxStatus

HttpMethods == {"GET", "POST", "PATCH", "DELETE"}

\* Client.request(method, url) called directly; the server answers `status`.
Request(method, status) ==
    Begin(Call("request", None, FALSE, FALSE, FALSE, FALSE, Empty),
          Outcome("done", None, Empty,
                  <<Req(method, None, status, 0, Empty)>>,
                  IF request_exc(status) # ""
                  THEN Raised(request_exc(status), "", {})
                  ELSE Responded(status)))

\* The transport alone, answered with any status.
NextRequest ==
    \/ (pc = "idle" /\ \E m \in HttpMethods, st \in Statuses : Request(m, st))
    \/ Return

SpecRequest == Init /\ [][NextRequest]_vars

\* The server may refuse any request of this client; no other client acts.
NextFault ==
    \/ \E f \in Faults : Calls(f)
    \/ \E f \in Faults : Sends(f)
    \/ Return

SpecFault == Init /\ [][NextFault]_vars

(***************************************************************************)
(* Vocabulary of the properties.                                           *)
(***************************************************************************)

\* The fields the caller supplied with a value.
Supplied == { f \in DOMAIN call.kwargs : call.kwargs[f] # None }

\* The required fields the caller did not supply.
Omitted == required_fields(kind) \ Supplied

\* The methods of the requests the operation has issued.
Methods == { reqs[n].method : n \in 1..Len(reqs) }

\* The operation is a write without a primary key.
WriteNoPk == IsWrite(call) /\ call.pk = None

\* The operation began with a unique-field lookup that the server answered
\* with `n` matching records.
LookupCount(n) ==
    /\ reqs # <<>>
    /\ reqs[1].method = "GET"
    /\ reqs[1].pk = None
    /\ reqs[1].status = 200
    /\ reqs[1].count = n

\* The operation began with GET endpoint/{call.pk}/, which found the record.
Fetched ==
    /\ call.pk # None
    /\ reqs # <<>>
    /\ reqs[1].method = "GET"
    /\ reqs[1].pk = call.pk
    /\ reqs[1].status = 200

\* This create repeats the unique-field values of the create before it.
RepeatsPrev ==
    /\ pc = "done"
    /\ call.op = "create"
    /\ prev # NoPrev
    /\ \A f \in unique_fields(kind) :
          Get(call.kwargs, f) = Get(prev.kwargs, f)

(***************************************************************************)
(* Properties.                                                             *)
(***************************************************************************)

\* C1: a create with force_on_exists=False (and fail_on_found=False) that
\* directly follows a create with the same unique-field values which created
\* record n returns {changed: False, id: n}, after one lookup GET and without
\* a POST or PATCH.  Violated: the second create fails with BadRequest when it
\* omits a required field that is not unique (the check C3 is about).
C1_CreateTwice ==
    (RepeatsPrev /\ ~call.force_on_exists /\ ~call.fail_on_found)
        => /\ result = Returned(FALSE, prev.id)
           /\ Len(reqs) = 1
           /\ LookupCount(1)

\* C2: on the schema whose required fields are {username}, modify(pk, email=v)
\* of an existing record whose email is not v issues one GET of the record and
\* one PATCH of it and returns {changed: True, id: pk}.  Violated: write
\* raises BadRequest for the omitted username after the GET.
C2_ModifyByPk ==
    (/\ pc = "done"
     /\ kind = "user"
     /\ call.op = "modify"
     /\ Fetched
     /\ Supplied = {"email"}
     /\ existing_data["email"] # call.kwargs["email"]
     /\ \A n \in 1..Len(reqs) : request_exc(reqs[n].status) = "")
        => /\ result = Returned(TRUE, call.pk)
           /\ Len(reqs) = 2
           /\ reqs[2].method = "PATCH"
           /\ reqs[2].pk = call.pk

\* C3: create with every unique field supplied, exactly one matching record,
\* force_on_exists=False and fail_on_found=False returns
\* {changed: False, id: <the match>} whatever other fields are supplied or
\* omitted.  Violated: an omitted required field makes it raise BadRequest.
C3_CreateOnExisting ==
    (/\ pc = "done"
     /\ call.op = "create"
     /\ ~call.force_on_exists
     /\ ~call.fail_on_found
     /\ unique_fields(kind) # {}
     /\ unique_fields(kind) \subseteq Supplied
     /\ LookupCount(1))
        => /\ result.exc = ""
           /\ ~result.changed
           /\ result.id \in Matches(store, reqs[1].data)

\* C4: modify(pk, fields) of an existing record each of whose supplied fields
\* already has the supplied value returns changed: False and issues no POST,
\* PATCH or DELETE.  Violated: BadRequest when a required field is omitted
\* (the check C2 is about).
C4_ModifyNoop ==
    (/\ pc = "done"
     /\ call.op = "modify"
     /\ Fetched
     /\ \A f \in Supplied : call.kwargs[f] = Get(existing_data, f))
        => /\ result.exc = ""
           /\ ~result.changed
           /\ Methods \subseteq {"GET"}

\* C5: a write that has a pk, given by the caller and fetched or adopted from
\* the one match of its lookup, and force_on_exists=False returns
\* {changed: False, id: pk} and issues no POST or PATCH.  Violated: BadRequest
\* when a required field is omitted (the check C2 is about).
C5_ForceShortCircuit ==
    (/\ pc \in {"send", "done"}
     /\ IsWrite(call)
     /\ ~call.force_on_exists
     /\ Fetched \/ (call.pk = None /\ ~call.fail_on_found /\ LookupCount(1)))
        => /\ pc = "done"
           /\ result = Returned(FALSE, pk)
           /\ Methods \subseteq {"GET"}

\* C6: on a schema with a unique field, a write without pk that supplies no
\* unique field, and a delete without pk whose keyword arguments name no
\* unique field, raise BadRequest before any request is issued.
C6_UniquenessRequired ==
    (/\ pc \in {"send", "done"}
     /\ call.pk = None
     /\ unique_fields(kind) # {}
     /\ \/ IsWrite(call) /\ Supplied \cap unique_fields(kind) = {}
        \/ /\ call.op = "delete"
           /\ DOMAIN call.kwargs \cap unique_fields(kind) = {})
        => /\ pc = "done"
           /\ result.exc = "BadRequest"
           /\ result.msg = "which record"
           /\ reqs = <<>>

\* C6: a modify without pk that supplies only organization to a team was
\* refused.
C6_Witness ==
    /\ pc = "done"
    /\ kind = "team"
    /\ call.op = "modify"
    /\ call.pk = None
    /\ Supplied = {"organization"}
    /\ result.exc = "BadRequest"
    /\ reqs = <<>>

\* C7: on a schema with no unique field a write without pk that supplies the
\* required fields is a creation: one POST, changed: True.  Violated: _lookup
\* raises BadRequest because its read_params are empty.
C7_NoUniqueFieldsCreates ==
    (/\ pc \in {"send", "done"}
     /\ WriteNoPk
     /\ unique_fields(kind) = {}
     /\ Omitted = {})
        => \/ pc = "send" /\ pk = None
           \/ /\ pc = "done"
              /\ result.exc = ""
              /\ result.changed
              /\ Methods = {"POST"}

C9_NoCreateUnlessAsked ==
    /\ (/\ pc \in {"send", "done"}
        /\ WriteNoPk
        /\ ~call.create_on_missing
        /\ LookupCount(0))
          => /\ pc = "done"
             /\ result.exc = "NotFound"
             /\ Len(reqs) = 1
    /\ ("POST" \in Methods \/ (pc = "send" /\ IsWrite(call) /\ pk = None))
          => /\ call.pk = None
             /\ call.create_on_missing
             /\ LookupCount(0)

\* C9: a modify without pk found no record to modify and created none.
C9_Witness ==
    /\ pc = "done"
    /\ call.op = "modify"
    /\ call.pk = None
    /\ ~call.create_on_missing
    /\ Omitted = {}
    /\ LookupCount(0)
    /\ result.exc = "NotFound"
    /\ "POST" \notin Methods

\* C10: a write without pk and with fail_on_found=True whose lookup matches
\* exactly one record raises Found and issues no POST or PATCH, whatever
\* force_on_exists and create_on_missing are.
C10_FailOnFound ==
    (/\ pc \in {"send", "done"}
     /\ WriteNoPk
     /\ call.fail_on_found
     /\ LookupCount(1))
        => /\ pc = "done"
           /\ result.exc = "Found"
           /\ Len(reqs) = 1

\* C10: a create with fail_on_found=True and force_on_exists=True found its
\* record and raised Found.
C10_Witness ==
    /\ pc = "done"
    /\ call.op = "create"
    /\ call.fail_on_found
    /\ call.force_on_exists
    /\ LookupCount(1)
    /\ result.exc = "Found"
    /\ Methods = {"GET"}

\* The operation is a delete whose last request so far is its DELETE.
DeleteAttempted ==
    /\ call.op = "delete"
    /\ reqs # <<>>
    /\ reqs[Len(reqs)].method = "DELETE"

\* The number of requests with method m the operation has issued.
Count(m) == Cardinality({ n \in 1..Len(reqs) : reqs[n].method = m })

\* C11: a delete whose DELETE request is answered 404 returns
\* {changed: False} when fail_on_missing is false and raises NotFound when it
\* is true; a delete whose DELETE request succeeds returns {changed: True}.
C11_DeleteMissingTolerance ==
    (pc = "done" /\ DeleteAttempted)
        => LET status == reqs[Len(reqs)].status IN
           /\ status \in {204, 404}
           /\ status = 204 => result = Returned(TRUE, NoId)
           /\ (status = 404 /\ ~call.fail_on_missing)
                 => result = Returned(FALSE, NoId)
           /\ (status = 404 /\ call.fail_on_missing)
                 => result.exc = "NotFound"

\* C11: delete(pk, fail_on_missing=False) of a record that does not exist
\* returned {changed: False} after its DELETE was answered 404.
C11_Witness ==
    /\ pc = "done"
    /\ call.op = "delete"
    /\ call.pk # None
    /\ call.pk \notin DOMAIN store
    /\ ~call.fail_on_missing
    /\ ~raced
    /\ reqs = <<Req("DELETE", call.pk, 404, 0, Empty)>>
    /\ result = Returned(FALSE, NoId)

\* C12: a delete without pk whose lookup matches no record issues no DELETE:
\* it returns {changed: False} after the lookup GET when fail_on_missing is
\* false and raises NotFound when it is true.
C12_DeleteNothingFound ==
    (/\ pc \in {"send", "done"}
     /\ call.op = "delete"
     /\ call.pk = None
     /\ LookupCount(0))
        => /\ pc = "done"
           /\ Len(reqs) = 1
           /\ Count("DELETE") = 0
           /\ IF call.fail_on_missing
              THEN result.exc = "NotFound"
              ELSE result = Returned(FALSE, NoId)

\* C12: delete by a unique field, fail_on_missing=False, found nothing while
\* other records exist, and returned {changed: False}.
C12_Witness ==
    /\ pc = "done"
    /\ call.op = "delete"
    /\ call.pk = None
    /\ ~call.fail_on_missing
    /\ DOMAIN store # {}
    /\ LookupCount(0)
    /\ Methods = {"GET"}
    /\ result = Returned(FALSE, NoId)

\* C13: when another client deletes the record between the lookup GET of a
\* delete and its DELETE request, the delete has attempted exactly one DELETE,
\* which was answered 404, and ends with {changed: False} when fail_on_missing
\* is false and with NotFound when it is true.
C13_DeleteRace ==
    (/\ pc = "done"
     /\ call.op = "delete"
     /\ call.pk = None
     /\ raced)
        => /\ LookupCount(1)
           /\ Len(reqs) = 2
           /\ Count("DELETE") = 1
           /\ reqs[2] = Req("DELETE", existing_data["id"], 404, 0, Empty)
           /\ IF call.fail_on_missing
              THEN result.exc = "NotFound"
              ELSE result = Returned(FALSE, NoId)

\* C13: a delete by unique field with fail_on_missing=True lost its record to
\* another client after the lookup and raised NotFound.
C13_Witness ==
    /\ pc = "done"
    /\ call.op = "delete"
    /\ call.pk = None
    /\ call.fail_on_missing
    /\ raced
    /\ LookupCount(1)
    /\ Len(reqs) = 2
    /\ reqs[2].status = 404
    /\ result.exc = "NotFound"

\* The operation began with a list request that the server answered with two
\* or more matching records.
Ambiguous ==
    /\ call.pk = None
    /\ reqs # <<>>
    /\ reqs[1].method = "GET"
    /\ reqs[1].pk = None
    /\ reqs[1].status = 200
    /\ reqs[1].count >= 2

\* C14: a read without pk whose list response counts two or more records
\* raises MultipleResults when fail_on_multiple_results is true, whatever
\* fail_on_no_results is; and a get, write, create, modify or delete without
\* pk whose list response counts two or more records raises MultipleResults
\* after that one GET, with no mutating request issued or due.
C14_AmbiguousLookup ==
    (pc \in {"send", "done"} /\ Ambiguous)
        => /\ pc = "done"
           /\ Len(reqs) = 1
           /\ IF call.op = "read"
              THEN call.fail_on_multiple_results
                      => result.exc = "MultipleResults"
              ELSE result.exc = "MultipleResults"

\* C14: a read with fail_on_multiple_results=True and
\* fail_on_no_results=False met two matching records and raised
\* MultipleResults.
C14_Witness ==
    /\ pc = "done"
    /\ call.op = "read"
    /\ Ambiguous
    /\ call.fail_on_multiple_results
    /\ ~call.fail_on_no_results
    /\ Supplied # {}
    /\ result.exc = "MultipleResults"

\* C15: a read without pk issues one list GET; it raises NotFound when
\* fail_on_no_results is true and the count is 0, and with both flags false
\* it returns the list payload (count and results) whatever the count.  A
\* read with pk issues one GET of the record; answered 200 it returns
\* {count: 1, results: [obj]} whatever the flags, answered 404 it raises
\* NotFound.
C15_ReadCountChecks ==
    (pc = "done" /\ call.op = "read")
        => /\ Len(reqs) = 1
           /\ reqs[1].method = "GET"
           /\ reqs[1].pk = call.pk
           /\ IF call.pk = None
              THEN /\ reqs[1].status = 200
                   /\ reqs[1].count = Cardinality(Matches(store, call.kwargs))
                   /\ (call.fail_on_no_results /\ reqs[1].count = 0)
                         => result.exc = "NotFound"
                   /\ (~call.fail_on_no_results
                       /\ ~call.fail_on_multiple_results)
                         => result =
                              ReadReturned(reqs[1].count,
                                  Results(store, Matches(store, call.kwargs)))
              ELSE IF call.pk \in DOMAIN store
              THEN /\ reqs[1].status = 200
                   /\ result = ReadReturned(1, <<Obj(store, call.pk)>>)
              ELSE /\ reqs[1].status = 404
                   /\ result.exc = "NotFound"

\* C15: a read with pk and both flags true returned the one record wrapped
\* as {count: 1, results: [obj]} although its filters match no record.
C15_Witness ==
    /\ pc = "done"
    /\ call.op = "read"
    /\ call.pk \in DOMAIN store
    /\ call.fail_on_no_results
    /\ call.fail_on_multiple_results
    /\ Matches(store, call.kwargs) = {}
    /\ result.exc = ""
    /\ result.count = 1
    /\ result.results = <<Obj(store, call.pk)>>

\* Request n of the operation changes the remote store if it succeeds.
Mutating(n) == reqs[n].method \in {"POST", "PATCH", "DELETE"}

\* The exception Client.request raised for request n ("": none).
ErrAt(n) == request_exc(reqs[n].status)

\* Request n is a list request, answered 200.
ListAnswered(n) ==
    /\ reqs[n].method = "GET"
    /\ reqs[n].pk = None
    /\ reqs[n].status = 200

\* The exception read raised on the answer to request n ("": none): get and
\* the lookup read with both flags true.
ReadErr(n) ==
    IF ~ListAnswered(n) THEN ""
    ELSE IF /\ reqs[n].count = 0
            /\ (call.op = "read" => call.fail_on_no_results)
    THEN "NotFound"
    ELSE IF /\ reqs[n].count >= 2
            /\ (call.op = "read" => call.fail_on_multiple_results)
    THEN "MultipleResults"
    ELSE ""

\* The error the transport or read raised at request n ("": none).
Error(n) == IF ErrAt(n) # "" THEN ErrAt(n) ELSE ReadErr(n)

\* The operation called _lookup with fail_on_missing=False.
SoftLookup ==
    /\ call.pk = None
    /\ \/ IsWrite(call) /\ call.create_on_missing
       \/ call.op = "delete" /\ ~call.fail_on_missing

\* C16 as stated: an operation issues at most two requests, at most one of
\* them mutating; the mutating request is the last one, and it is issued, or
\* due, only after every GET before it was answered successfully.  Violated:
\* a write with create_on_missing=True whose lookup GET is answered 404 takes
\* the NotFound for "no match" and goes on to POST.
C16_AsStated ==
    /\ Len(reqs) <= 2
    /\ Cardinality({ n \in 1..Len(reqs) : Mutating(n) }) <= 1
    /\ \A n \in 1..Len(reqs) :
          Mutating(n)
             => /\ n = Len(reqs)
                /\ \A m \in 1..(n - 1) :
                      reqs[m].method = "GET" /\ reqs[m].status = 200
    /\ pc = "send"
          => \A m \in 1..Len(reqs) :
                reqs[m].method = "GET" /\ reqs[m].status = 200

\* The GET that was request m has returned in a way that lets the operation
\* go on: answered 200, or, for the lookup of a write without pk and with
\* create_on_missing=True, answered 404.
GetDone(m) ==
    /\ reqs[m].method = "GET"
    /\ \/ reqs[m].status = 200
       \/ /\ reqs[m].status = 404
          /\ reqs[m].pk = None
          /\ IsWrite(call)
          /\ SoftLookup

\* C16: an operation issues at most two requests, at most one of them
\* mutating; the mutating request is the last one, and it is issued, or due,
\* only after the GET before it, if any, was answered 200, or was the lookup
\* GET of a write with create_on_missing=True answered 404, in which case the
\* mutating request is a POST.
C16_TraceShape ==
    /\ Len(reqs) <= 2
    /\ Cardinality({ n \in 1..Len(reqs) : Mutating(n) }) <= 1
    /\ \A n \in 1..Len(reqs) :
          Mutating(n)
             => /\ n = Len(reqs)
                /\ \A m \in 1..(n - 1) :
                      /\ GetDone(m)
                      /\ reqs[m].status = 404 => reqs[n].method = "POST"
    /\ pc = "send"
          => \A m \in 1..Len(reqs) :
                /\ GetDone(m)
                /\ reqs[m].status = 404 => pk = None

\* C16: a create whose lookup GET was answered 404 went on to POST and
\* created a record.
C16_Witness ==
    /\ pc = "done"
    /\ call.op = "create"
    /\ Len(reqs) = 2
    /\ reqs[1].method = "GET"
    /\ reqs[1].status = 404
    /\ reqs[2].method = "POST"
    /\ reqs[2].status = 201
    /\ result.exc = ""
    /\ result.changed

\* C17: an error raised by the transport or by read at a request ends the
\* operation with that error and is the operation's last request, except
\* that a NotFound at the lookup GET of an operation that called _lookup with
\* fail_on_missing=False is taken for "no match" (a delete then returns
\* {changed: False} without a DELETE), and a NotFound at the DELETE request of
\* a delete with fail_on_missing=False gives {changed: False}.
C17_ErrorPropagation ==
    pc \in {"send", "done"}
        => \A n \in 1..Len(reqs) :
              Error(n) # ""
                 => IF /\ n = 1
                       /\ reqs[1].method = "GET"
                       /\ reqs[1].pk = None
                       /\ Error(1) = "NotFound"
                       /\ SoftLookup
                    THEN call.op = "delete"
                            => /\ pc = "done"
                               /\ Len(reqs) = 1
                               /\ result = Returned(FALSE, NoId)
                    ELSE IF /\ call.op = "delete"
                            /\ reqs[n].method = "DELETE"
                            /\ Error(n) = "NotFound"
                            /\ ~call.fail_on_missing
                    THEN /\ pc = "done"
                         /\ n = Len(reqs)
                         /\ result = Returned(FALSE, NoId)
                    ELSE /\ pc = "done"
                         /\ n = Len(reqs)
                         /\ result.exc = Error(n)

\* C17: a write by pk fetched its record, had its PATCH refused with 403 and
\* raised Forbidden.
C17_Witness ==
    /\ pc = "done"
    /\ IsWrite(call)
    /\ Fetched
    /\ Len(reqs) = 2
    /\ reqs[2].method = "PATCH"
    /\ reqs[2].status = 403
    /\ result.exc = "Forbidden"

\* The caller's fields with every None value removed.
SuppliedFields == [f \in Supplied |-> call.kwargs[f]]

\* The operation is a write whose last request is its POST or PATCH.
WriteSent ==
    /\ pc = "done"
    /\ IsWrite(call)
    /\ reqs # <<>>
    /\ reqs[Len(reqs)].method \in {"POST", "PATCH"}

C19_ModifyWritesNonUnique ==
    (/\ WriteSent
     /\ call.op = "modify"
     /\ call.pk = None
     /\ reqs[Len(reqs)].method = "PATCH")
        => DOMAIN reqs[Len(reqs)].data \cap unique_fields(kind) = {}

\* C20: Client.request raises AuthError exactly for status 401, Forbidden
\* for 403, NotFound for 404, ServerError for 500 and above, BadRequest for
\* every other status from 400 on, and returns the response exactly for the
\* statuses below 400.
C20_StatusClassification ==
    (pc = "done" /\ call.op = "request")
        => LET st == reqs[1].status
               e == result.exc
           IN /\ e \in {"", "AuthError", "Forbidden", "NotFound",
                        "ServerError", "BadRequest"}
              /\ e = "AuthError" <=> st = 401
              /\ e = "Forbidden" <=> st = 403
              /\ e = "NotFound" <=> st = 404
              /\ e = "ServerError" <=> st >= 500
              /\ e = "BadRequest"
                    <=> (st >= 400 /\ st < 500 /\ st \notin {401, 403, 404})
              /\ e = "" <=> st < 400
              /\ e = "" => result = Responded(st)

\* C20: a request answered 418 raised BadRequest.
C20_Witness ==
    /\ pc = "done"
    /\ call.op = "request"
    /\ reqs[1].status = 418
    /\ result.exc = "BadRequest"

(***************************************************************************)
(* Settings (conf.py).  A configuration file is the function from the      *)
(* options of its [general] section to their raw text.  The defaults of    *)
(* Settings.__init__ are handed to the global parser alone; a default of   *)
(* None reads as "not present" at line 137 and is left out.  The default   *)
(* of 'color' is not text and is outside the model.                        *)
(***************************************************************************)

\* The settings read here and the raw texts a file may give them.
SettingKeys == {"host", "username"}
RawValues == {"tower", "1", "yes"}

\* The [general] sections a configuration file may hold.
Sections == UNION { [K -> RawValues] : K \in SUBSET SettingKeys }

\* Settings.__init__: the defaults that are not None.
defaults == [k \in {"host"} |-> "127.0.0.1"]

\* A parser: the options of its [general] section and its defaults.
Parser(section, dflt) == [section |-> section, defaults |-> dflt]

\* parser.get('general', key, fallback=None): <<raw>>, or <<>> for None.
parser_get(parser, key) ==
    IF key \in DOMAIN parser.section THEN <<parser.section[key]>>
    ELSE IF key \in DOMAIN parser.defaults THEN <<parser.defaults[key]>>
    ELSE <<>>

\* The parsers in the order __getattr__ runs through them.
parsers(g, u, r) ==
    <<Parser(g, defaults), Parser(u, NoOptions), Parser(r, NoOptions)>>

\* The first parser, from the n-th on, that has a value for the key.
RECURSIVE first_value(_, _, _)
first_value(ps, key, n) ==
    IF n > Len(ps) THEN <<>>
    ELSE IF parser_get(ps[n], key) # <<>> THEN parser_get(ps[n], key)
    ELSE first_value(ps, key, n + 1)

\* A value read from a parser, with the type it was cast to.
Typed(type, raw) == [type |-> type, raw |-> raw]

\* getint, getfloat and getboolean tried in that order, else the text.
type_cast(raw) ==
    IF raw \in {"1"} THEN Typed("int", raw)
    ELSE IF raw \in {"yes"} THEN Typed("bool", raw)
    ELSE Typed("str", raw)

SettingValue(v) == [exc |-> "", value |-> v]
NoSetting == [exc |-> "AttributeError", value |-> Typed("", "")]

\* Settings.__getattr__.
__getattr__(cache, g, u, r, key) ==
    IF key \in DOMAIN cache THEN SettingValue(cache[key])
    ELSE IF first_value(parsers(g, u, r), key, 1) = <<>> THEN NoSetting
    ELSE SettingValue(type_cast(first_value(parsers(g, u, r), key, 1)[1]))

\* The cache after a read.
cached(cache, key, res) ==
    IF res.exc # "" THEN cache
    ELSE [k \in DOMAIN cache \cup {key} |->
            IF k = key THEN res.value ELSE cache[k]]

\* Settings(): the files found on the machine have been read; nothing
\* fills the runtime parser.
InitSettings ==
    /\ InitEngine
    /\ InitNoJob
    /\ InitNoLaunch
    /\ peer = NoPeer
    /\ _global \in Sections
    /\ _user \in Sections
    /\ _runtime = NoOptions
    /\ _cache = NoOptions

SettingCall(key) == [op |-> "__getattr__", key |-> key]

\* settings.<key> is read.
GetAttr(key) ==
    /\ BeginOp(SettingCall(key),
               Outcome("done", None, Empty, <<>>,
                       __getattr__(_cache, _global, _user, _runtime, key)))
    /\ _cache' = cached(_cache, key,
                        __getattr__(_cache, _global, _user, _runtime, key))
    /\ UNCHANGED <<_global, _user, _runtime, job_vars, launch_vars, peer>>

NextSettings ==
    \/ (pc = "idle" /\ \E key \in SettingKeys : GetAttr(key))
    \/ Return

SpecSettings == InitSettings /\ [][NextSettings]_vars

\* The raw text the source of greatest precedence gives the key, <<>> if
\* no source sets it.
Greatest(key) ==
    IF key \in DOMAIN _runtime THEN <<_runtime[key]>>
    ELSE IF key \in DOMAIN _user THEN <<_user[key]>>
    ELSE IF key \in DOMAIN _global THEN <<_global[key]>>
    ELSE <<>>

\* C21: a setting that is read has the value of the source of greatest
\* precedence that sets it, in the order global file, user file, runtime
\* values; the built-in default is returned only when no source sets it.
C21_SettingsPrecedence ==
    (pc = "done" /\ call.op = "__getattr__")
        => IF Greatest(call.key) # <<>>
           THEN /\ result.exc = ""
                /\ result.value.raw = Greatest(call.key)[1]
           ELSE (result.exc = "" /\ call.key \in DOMAIN defaults)
                    => result.value.raw = defaults[call.key]

(***************************************************************************)
(* The job resource: monitor and status (resources/job.py).  An interval   *)
(* is counted in sixteenths of a second: the intervals monitor computes    *)
(* from whole seconds by the factor 1.5 below MaxInterval are multiples of *)
(* a sixteenth, and floating point represents them exactly.                *)
(***************************************************************************)

\* The greatest interval, in seconds, given as --min-interval or
\* --max-interval, and the number of sleeps followed.
MaxInterval == 4
MaxSleeps == 4

Second == 16

Intervals == 0..MaxInterval

\* The states of a job on the server: `failed` is set for the statuses that
\* end a job without success.
JobStates ==
    {Job("pending", FALSE), Job("running", FALSE), Job("successful", FALSE),
     Job("failed", TRUE), Job("canceled", TRUE)}

\* The steps of a job on the server.
JobStep(j, k) ==
    \/ j.status = "pending" /\ k.status \in {"running", "canceled"}
    \/ j.status = "running" /\ k.status \in {"successful", "failed", "canceled"}

min(a, b) == IF a <= b THEN a ELSE b

\* An interval that grows without a cap.
backoff_uncapped(i, max_interval) == (i * 3) \div 2

\* interval = min(interval * 1.5, max_interval)
backoff(i, max_interval) == min((i * 3) \div 2, max_interval * Second)

Polled(exc, j, rq) == [exc |-> exc, job |-> j, req |-> rq]

\* The status the server answers a poll with.
poll_status(fault) == IF fault # 0 THEN fault ELSE 200

\* Resource.status(pk): GET /jobs/<pk>/.
status(pk_, remote, st) ==
    IF request_exc(st) # ""
    THEN Polled(request_exc(st), NoJob, Req("GET", pk_, st, 0, Empty))
    ELSE Polled("", remote, Req("GET", pk_, st, 0, Empty))

\* What `raise exc.JobFailure(...)` raises in job.py, a module that binds no
\* name `exc`.
job_failure == "NameError"

MonitorReturned(j) == [exc |-> "", job |-> j]
MonitorRaised(exc) == [exc |-> exc, job |-> NoJob]

Loop(pc_, i, res) == [pc |-> pc_, interval |-> i, result |-> res]

\* monitor from a poll to the next sleep, or to its end.
monitor_loop(polled, i, max_interval) ==
    IF polled.exc # "" THEN Loop("done", i, MonitorRaised(polled.exc))
    ELSE IF polled.job.status = "successful"
    THEN Loop("done", i, MonitorReturned(polled.job))
    ELSE IF polled.job.failed THEN Loop("done", i, MonitorRaised(job_failure))
    ELSE Loop("sleep", backoff(i, max_interval), NoResult)

MonitorArgs(pk_, min_interval, max_interval) ==
    [op |-> "monitor", pk |-> pk_, min_interval |-> min_interval,
     max_interval |-> max_interval]

\* monitor up to its first sleep.
monitor_begin(c, polled) ==
    /\ BeginOp(c, Outcome(monitor_loop(polled, c.min_interval * Second,
                                       c.max_interval).pc,
                          None, Empty, <<polled.req>>,
                          monitor_loop(polled, c.min_interval * Second,
                                       c.max_interval).result))
    /\ job' = polled.job
    /\ interval' = monitor_loop(polled, c.min_interval * Second,
                                c.max_interval).interval
    /\ sleeps' = <<>>
    /\ UNCHANGED <<remote_job, settings_vars, launch_vars, peer>>

\* Resource.monitor is called.
MonitorCall(pk_, min_interval, max_interval, fault) ==
    monitor_begin(MonitorArgs(pk_, min_interval, max_interval),
                  status(pk_, remote_job, poll_status(fault)))

\* monitor from a sleep to the next, or to its end.
monitor_sleep(polled) ==
    /\ sleeps' = Append(sleeps, interval)
    /\ reqs' = Append(reqs, polled.req)
    /\ job' = polled.job
    /\ interval' = monitor_loop(polled, interval, call.max_interval).interval
    /\ pc' = monitor_loop(polled, interval, call.max_interval).pc
    /\ result' = monitor_loop(polled, interval, call.max_interval).result
    /\ UNCHANGED <<kind, store, nextId, call, pk, existing_data, raced, prev,
                   remote_job, settings_vars, launch_vars, peer>>

\* time.sleep(interval) ends and the job is polled again.
MonitorSleep(fault) ==
    /\ pc = "sleep"
    /\ Len(sleeps) < MaxSleeps
    /\ monitor_sleep(status(call.pk, remote_job, poll_status(fault)))

\* The job moves on, on the server.
JobAdvance(k) ==
    /\ pc \in {"idle", "sleep"}
    /\ JobStep(remote_job, k)
    /\ remote_job' = k
    /\ UNCHANGED <<kind, store, nextId, call, pc, pk, existing_data, reqs,
                   result, raced, prev, settings_vars, job, interval, sleeps,
                   launch_vars, peer>>

\* A job in any state is on the server; monitor has not been called.
InitMonitor ==
    /\ InitEngine
    /\ InitNoFiles
    /\ InitNoLaunch
    /\ peer = NoPeer
    /\ remote_job \in JobStates
    /\ job = NoJob
    /\ interval = 0
    /\ sleeps = <<>>

NextMonitor ==
    \/ (pc = "idle" /\ \E mn, mx \in Intervals, f \in Faults :
                          MonitorCall(1, mn, mx, f))
    \/ \E f \in Faults : MonitorSleep(f)
    \/ \E k \in JobStates : JobAdvance(k)
    \/ Return

SpecMonitor == InitMonitor /\ [][NextMonitor]_vars

\* monitor is under way or has ended, and its last poll was answered.
MonitorPolled ==
    /\ call.op = "monitor"
    /\ pc \in {"sleep", "done"}
    /\ reqs[Len(reqs)].status = 200

\* C22: monitor goes on polling while the polled job is neither successful
\* nor failed; it ends on a job whose status is 'successful', which it
\* returns, or on a job that has failed, and then with a job failure error;
\* it never returns a job with another status.
C22_MonitorStops ==
    MonitorPolled
        => /\ pc = "sleep" <=> (job.status # "successful" /\ ~job.failed)
           /\ (pc = "done" /\ job.status = "successful")
                  => result = MonitorReturned(job)
           /\ (pc = "done" /\ job.status # "successful")
                  => (job.failed /\ result.exc = "JobFailure")
           /\ (pc = "done" /\ result.exc = "")
                  => result.job.status = "successful"

\* The sleeps of the monitor under way or just ended stay within
\* [min_interval, max_interval], never shrink, and grow by the factor 1.5
\* until they reach max_interval.
Backoff ==
    \A n \in 1..Len(sleeps) :
        /\ sleeps[n] >= call.min_interval * Second
        /\ sleeps[n] <= call.max_interval * Second
        /\ n > 1 => sleeps[n] >= sleeps[n - 1]
        /\ \/ sleeps[n] = call.max_interval * Second
           \/ 2 * sleeps[n] = 3 * (IF n = 1 THEN call.min_interval * Second
                                            ELSE sleeps[n - 1])

\* C23 as stated: the backoff bounds hold for all min_interval and
\* max_interval.
C23_AsStated ==
    call.op = "monitor" => Backoff

\* C23: when 0 <= min_interval <= max_interval, every interval monitor
\* sleeps is at least min_interval and at most max_interval, the intervals
\* never shrink, and each is 1.5 times the one before it (the first, 1.5
\* times min_interval) unless it is max_interval.
C23_BackoffBounds ==
    (call.op = "monitor" /\ call.min_interval <= call.max_interval)
        => Backoff

\* C23: a monitor with min_interval < max_interval slept three times, with
\* a longer second sleep and a third sleep of max_interval.
C23_Witness ==
    /\ call.op = "monitor"
    /\ call.min_interval < call.max_interval
    /\ Len(sleeps) >= 3
    /\ sleeps[1] < sleeps[2]
    /\ sleeps[3] = call.max_interval * Second

(***************************************************************************)
(* The job resource: launch (resources/job.py).  The job templates are the *)
(* records of `store`; the server gives every job it creates its start     *)
(* requirements.                                                           *)
(***************************************************************************)

\* The number of jobs launch creates.
MaxJobs == 2

\* The passwords a job may need, and what the user may type for one.
Passwords == {"ssh_password", "sudo_password"}
Secrets == {"s", "t"}

\* The lists of passwords the start requirements may name.
PasswordLists ==
    {<<>>, <<"ssh_password">>, <<"sudo_password">>,
     <<"ssh_password", "sudo_password">>}

\* The start requirements of a job: the key may be missing.
StartInfos ==
    {Empty} \cup { [k \in {"passwords_needed_to_start"} |-> l] :
                     l \in PasswordLists }

\* The job templates on the server.
TemplateStores ==
    UNION { [S -> [FieldNames("plain") -> Vals]] : S \in SUBSET Ids }

\* get_resource('job_template'): the resource whose records are `st`.
get_resource(st) == st

\* A URL below the API prefix: endpoint, primary key, sub-resource.
Url(endpoint, pk_, sub) == [endpoint |-> endpoint, pk |-> pk_, sub |-> sub]

LaunchReq(method, url, st, data) ==
    [method |-> method, url |-> url, status |-> st, data |-> data]

\* data = copy(jt); data.pop('id'); data['name'] = 'CLI Job Invocation: ...'
job_data(template) ==
    [f \in (DOMAIN template \ {"id"}) \cup {"name"} |->
        IF f = "name" THEN "CLI Job Invocation" ELSE template[f]]

\* job_start_info.get('passwords_needed_to_start', [])
passwords_needed(info) ==
    IF "passwords_needed_to_start" \in DOMAIN info
    THEN info["passwords_needed_to_start"]
    ELSE <<>>

\* A launch that asks for no password.
start_data_none(info, typed) == Empty

\* start_data: one entry per password named, holding what getpass returned.
start_data(info, typed) ==
    [p \in { passwords_needed(info)[n] :
               n \in 1..Len(passwords_needed(info)) } |-> typed[p]]

\* The status of a request of launch to the jobs endpoint.
job_status(fault, ok) == IF fault # 0 THEN fault ELSE ok

LaunchArgs(job_template) == [op |-> "launch", job_template |-> job_template]

\* launch up to the POST that creates the job: the job template is fetched.
launch_get(c, g) ==
    /\ BeginOp(c, Outcome(IF g.exc # "" THEN "done" ELSE "post_job",
                          None, Empty,
                          <<LaunchReq("GET",
                                      Url("/job_templates/", c.job_template, ""),
                                      g.reqs[1].status, Empty)>>,
                          IF g.exc # "" THEN Raised(g.exc, g.msg, {})
                          ELSE NoResult))
    /\ jt' = g.obj
    /\ job' = NoJob
    /\ job_start_info' = Empty
    /\ UNCHANGED <<jobs, settings_vars, remote_job, interval, sleeps, peer>>

\* Resource.launch is called.
LaunchCall(job_template, fault) ==
    launch_get(LaunchArgs(job_template),
               get(get_resource(store), job_template, Empty, fault))

\* A step of launch after the first: its request, and what it leaves.
launch_step(rq, pc_, res) ==
    /\ reqs' = Append(reqs, rq)
    /\ pc' = IF request_exc(rq.status) # "" THEN "done" ELSE pc_
    /\ result' = IF request_exc(rq.status) # ""
                 THEN Raised(request_exc(rq.status), "", {})
                 ELSE res
    /\ UNCHANGED <<kind, store, nextId, call, pk, existing_data, raced, prev,
                   settings_vars, remote_job, interval, sleeps, jt, peer>>

\* The id the server gives the next job.
next_job == Cardinality(DOMAIN jobs) + 1

\* A job on the server.
ServerJob(data, info, started, sent) ==
    [data |-> data, info |-> info, started |-> started, start_data |-> sent]

\* job = client.post('/jobs/', data=data).json()
LaunchCreate(fault, info) ==
    /\ pc = "post_job"
    /\ fault = 0 => next_job <= MaxJobs
    /\ launch_step(LaunchReq("POST", Url("/jobs/", None, ""),
                             job_status(fault, 201), job_data(jt)),
                   "get_start", NoResult)
    /\ IF fault # 0
       THEN UNCHANGED <<jobs, job>>
       ELSE /\ jobs' = [i \in DOMAIN jobs \cup {next_job} |->
                          IF i = next_job
                          THEN ServerJob(job_data(jt), info, FALSE, Empty)
                          ELSE jobs[i]]
            /\ job' = [id |-> next_job]
    /\ UNCHANGED job_start_info

\* job_start_info = client.get('/jobs/%d/start/' % job['id']).json()
LaunchStartInfo(fault) ==
    /\ pc = "get_start"
    /\ launch_step(LaunchReq("GET", Url("/jobs/", job.id, "start/"),
                             job_status(fault, 200), Empty),
                   "post_start", NoResult)
    /\ job_start_info' = IF fault # 0 THEN job_start_info ELSE jobs[job.id].info
    /\ UNCHANGED <<jobs, job>>

\* result = client.post('/jobs/%d/start/' % job['id'], start_data); return.
LaunchStart(fault, typed) ==
    /\ pc = "post_start"
    /\ launch_step(LaunchReq("POST", Url("/jobs/", job.id, "start/"),
                             job_status(fault, 202),
                             start_data(job_start_info, typed)),
                   "done", Returned(TRUE, job.id))
    /\ jobs' = IF fault # 0 THEN jobs
               ELSE [jobs EXCEPT ![job.id] =
                       ServerJob(jobs[job.id].data, jobs[job.id].info, TRUE,
                                 start_data(job_start_info, typed))]
    /\ UNCHANGED <<job, job_start_info>>

\* The job templates are on the server; launch has not been called.
InitLaunch ==
    /\ kind = "plain"
    /\ store \in TemplateStores
    /\ nextId = 1
    /\ call = NoCall
    /\ pc = "idle"
    /\ pk = None
    /\ existing_data = Empty
    /\ reqs = <<>>
    /\ result = NoResult
    /\ raced = FALSE
    /\ prev = NoPrev
    /\ InitNoFiles
    /\ InitNoJob
    /\ InitNoLaunch
    /\ peer = NoPeer

NextLaunch ==
    \/ (pc = "idle" /\ \E t \in PkArgs, f \in Faults : LaunchCall(t, f))
    \/ \E f \in Faults, info \in StartInfos : LaunchCreate(f, info)
    \/ \E f \in Faults : LaunchStartInfo(f)
    \/ \E f \in Faults, typed \in [Passwords -> Secrets] : LaunchStart(f, typed)
    \/ Return

SpecLaunch == InitLaunch /\ [][NextLaunch]_vars

\* The n-th request of launch was answered without error.
Answered(n) == request_exc(reqs[n].status) = ""

\* The passwords the start requirements fetched name.
Named ==
    IF "passwords_needed_to_start" \in DOMAIN job_start_info
    THEN { job_start_info["passwords_needed_to_start"][n] :
             n \in 1..Len(job_start_info["passwords_needed_to_start"]) }
    ELSE {}

\* C24: launch issues GET job template, POST /jobs/, GET /jobs/<id>/start/,
\* POST /jobs/<id>/start/ in this order, each only after the one before was
\* answered without error; a request answered with an error is the last and
\* its error is raised; the start POST carries exactly the passwords named
\* by the start requirements; launch returns {changed: true, id: <id of
\* the job created>} after the start POST was answered.
C24_LaunchOrder ==
    (call.op = "launch" /\ pc # "idle")
        => /\ Len(reqs) \in 1..4
           /\ \A n \in 1..(Len(reqs) - 1) : Answered(n)
           /\ reqs[1].method = "GET"
           /\ reqs[1].url.endpoint = "/job_templates/"
           /\ Len(reqs) >= 2
                 => /\ reqs[2].method = "POST"
                    /\ reqs[2].url = Url("/jobs/", None, "")
           /\ Len(reqs) >= 3
                 => /\ reqs[3].method = "GET"
                    /\ reqs[3].url = Url("/jobs/", job.id, "start/")
                    /\ job.id \in DOMAIN jobs
           /\ Len(reqs) = 4
                 => /\ reqs[4].method = "POST"
                    /\ reqs[4].url = Url("/jobs/", job.id, "start/")
                    /\ DOMAIN reqs[4].data = Named
           /\ ~Answered(Len(reqs))
                 => /\ pc = "done"
                    /\ result.exc = request_exc(reqs[Len(reqs)].status)
           /\ pc = "post_job" => (Len(reqs) = 1 /\ Answered(1))
           /\ pc = "get_start" => (Len(reqs) = 2 /\ Answered(2))
           /\ pc = "post_start" => (Len(reqs) = 3 /\ Answered(3))
           /\ (pc = "done" /\ Len(reqs) < 4) => result.exc \notin {"", "none"}
           /\ (pc = "done" /\ result.exc = "")
                 => /\ Len(reqs) = 4
                    /\ Answered(4)
                    /\ result = Returned(TRUE, job.id)
                    /\ jobs[job.id].started
           /\ (Len(reqs) = 4 /\ Answered(4)) => result.exc = ""

\* C24: a launch whose job needs two passwords returned after its four
\* requests.
C24_Witness ==
    /\ call.op = "launch"
    /\ pc = "done"
    /\ result.exc = ""
    /\ Len(reqs) = 4
    /\ Named = Passwords

(***************************************************************************)
(* ResourceMeta.__new__ (models.py): the endpoint of a resource class.  A  *)
(* string is the sequence of its characters; the class body is the map of  *)
(* its attributes, of which `endpoint` alone is followed.  An endpoint of  *)
(* None reads like a missing one at line 133.                              *)
(***************************************************************************)

\* The length of the endpoints tried.
MaxLen == 4

Chars == {"/", "j", "s"}

Strings == UNION { [1..n -> Chars] : n \in 0..MaxLen }

\* The class bodies: with or without an endpoint.
ClassAttrs == {Empty} \cup { [k \in {"endpoint"} |-> e] : e \in Strings }

\* str.endswith('/')
endswith(str, ch) == Len(str) > 0 /\ str[Len(str)] = ch

\* not newattrs.get('endpoint', None)
no_endpoint(attrs) ==
    \/ "endpoint" \notin DOMAIN attrs
    \/ attrs["endpoint"] = <<>>

\* An endpoint that is given a slash whatever its end.
with_slash_always(e) == Append(e, "/")

\* The endpoint with its trailing slash ensured.
with_slash(e) == IF endswith(e, "/") THEN e ELSE Append(e, "/")

Constructed(attrs) == [exc |-> "", attrs |-> attrs]
NotConstructed == [exc |-> "TypeError", attrs |-> Empty]

\* ResourceMeta.__new__ for a class with or without a ResourceMeta parent.
__new__(parents, attrs) ==
    IF ~parents THEN Constructed(attrs)
    ELSE IF no_endpoint(attrs) THEN NotConstructed
    ELSE Constructed([k \in DOMAIN attrs |->
                        IF k = "endpoint" THEN with_slash(attrs[k])
                        ELSE attrs[k]])

ClassArgs(parents, attrs) ==
    [op |-> "__new__", parents |-> parents, attrs |-> attrs]

\* A class statement whose metaclass is ResourceMeta is executed.
Construct(parents, attrs) ==
    Begin(ClassArgs(parents, attrs),
          Outcome("done", None, Empty, <<>>, __new__(parents, attrs)))

NextMeta ==
    \/ (pc = "idle" /\ \E parents \in BOOLEAN, attrs \in ClassAttrs :
                          Construct(parents, attrs))
    \/ Return

SpecMeta == Init /\ [][NextMeta]_vars

\* A resource kind (a class with a ResourceMeta parent) has been put to
\* construction.
KindDefined ==
    /\ pc = "done"
    /\ call.op = "__new__"
    /\ call.parents

\* C25: the construction of a resource kind fails when its endpoint is
\* missing or empty; otherwise the kind is constructed with a non-empty
\* endpoint that ends in '/': the given endpoint itself when it ends in
\* '/', and the given endpoint followed by one '/' when it does not.
C25_EndpointNormalised ==
    KindDefined
        => IF "endpoint" \notin DOMAIN call.attrs
           THEN result.exc = "TypeError"
           ELSE IF Len(call.attrs["endpoint"]) = 0
           THEN result.exc = "TypeError"
           ELSE /\ result.exc = ""
                /\ Len(result.attrs["endpoint"]) > 0
                /\ result.attrs["endpoint"][Len(result.attrs["endpoint"])] = "/"
                /\ IF call.attrs["endpoint"][Len(call.attrs["endpoint"])] = "/"
                   THEN result.attrs["endpoint"] = call.attrs["endpoint"]
                   ELSE result.attrs["endpoint"]
                            = call.attrs["endpoint"] \o <<"/">>

\* C25: the kind with endpoint '/js' was constructed, with endpoint '/js/'.
C25_Witness ==
    /\ KindDefined
    /\ call.attrs = [k \in {"endpoint"} |-> <<"/", "j", "s">>]
    /\ result.exc = ""
    /\ result.attrs["endpoint"] = <<"/", "j", "s", "/">>

(***************************************************************************)
(* The `user get` command (commands/user.py).  A Python value is modelled  *)
(* with its type, so that its truth value is the one Python gives it.      *)
(***************************************************************************)

PyValue(t, str, b, n) == [t |-> t, str |-> str, b |-> b, n |-> n]
PyNone == PyValue("none", "", FALSE, 0)
PyStr(str) == PyValue("str", str, FALSE, 0)
PyBool(b) == PyValue("bool", "", b, 0)
PyInt(n) == PyValue("int", "", FALSE, n)

\* bool(v)
truth(v) ==
    CASE v.t = "str" -> v.str # ""
      [] v.t = "bool" -> v.b
      [] v.t = "int" -> v.n # 0
      [] OTHER -> FALSE

\* The options of `user list`, which `user get` takes over, and the values
\* click passes for them: None when the option is not given.
TextFilters == {"username", "email", "first_name", "last_name"}
FilterNames == TextFilters \cup {"is_superuser"}

FilterArgs ==
    { kw \in [FilterNames -> {PyNone, PyStr(""), PyStr("x"),
                              PyBool(FALSE), PyBool(TRUE)}] :
        /\ \A f \in TextFilters : kw[f].t \in {"none", "str"}
        /\ kw["is_superuser"].t \in {"none", "bool"} }

\* The user_id argument: not given, or an integer.
UserIds == {PyNone, PyInt(0), PyInt(1)}

\* any(kwargs.values())
any_value(kwargs) == \E f \in DOMAIN kwargs : truth(kwargs[f])

\* not user_id and not any(kwargs.values())
nothing_given(user_id, kwargs) == ~truth(user_id) /\ ~any_value(kwargs)

\* if user_id: kwargs['id'] = user_id
get_params(user_id, kwargs) ==
    IF truth(user_id)
    THEN [f \in DOMAIN kwargs \cup {"id"} |->
            IF f = "id" THEN user_id ELSE kwargs[f]]
    ELSE kwargs

\* client.get_one('/users/', params=kwargs): one GET of the list endpoint.
get_one(params, st) ==
    [exc |-> request_exc(st),
     reqs |-> <<LaunchReq("GET", Url("/users/", None, ""), st, params)>>]

UserGetArgs(user_id, kwargs) ==
    [op |-> "user get", user_id |-> user_id, kwargs |-> kwargs]

UsageError == [exc |-> "UsageError"]

\* The command function `get`.
user_get(user_id, kwargs, st) ==
    IF nothing_given(user_id, kwargs)
    THEN Outcome("done", None, Empty, <<>>, UsageError)
    ELSE Outcome("done", None, Empty,
                 get_one(get_params(user_id, kwargs), st).reqs,
                 [exc |-> get_one(get_params(user_id, kwargs), st).exc])

\* `tower-cli user get [user_id] [filter options]` is run.
UserGet(user_id, kwargs, fault) ==
    Begin(UserGetArgs(user_id, kwargs),
          user_get(user_id, kwargs, list_status(fault)))

NextUser ==
    \/ (pc = "idle" /\ \E u \in UserIds, kw \in FilterArgs, f \in Faults :
                          UserGet(u, kw, f))
    \/ Return

SpecUser == Init /\ [][NextUser]_vars

\* The user id, or some filter option, was given on the command line.
Given ==
    \/ call.user_id.t # "none"
    \/ \E f \in FilterNames : call.kwargs[f].t # "none"

\* C26: `user get` ends with UsageError exactly when neither a user id nor
\* a filter option was given; when one was given, is_superuser=false
\* included, it issues its lookup request.
C26_UsageErrorIffNothingGiven ==
    (pc = "done" /\ call.op = "user get")
        => /\ result.exc = "UsageError" <=> ~Given
           /\ Given => Len(reqs) = 1

(***************************************************************************)
(* The result of write and delete against their request trace.             *)
(***************************************************************************)

\* The mutating requests the operation has issued.
MutatingReqs == { n \in 1..Len(reqs) : Mutating(n) }

\* A write, create, modify or delete has returned normally.
ReturnedNormally ==
    /\ pc = "done"
    /\ (IsWrite(call) \/ call.op = "delete")
    /\ result.exc = ""

\* C27: a write or delete that returns normally has changed = true exactly
\* when it issued one mutating request and that request succeeded; with
\* changed = false it issued no mutating request, or one only, a DELETE that
\* was answered NotFound.
C27_ChangedFaithful ==
    ReturnedNormally
        => /\ result.changed
                <=> /\ Cardinality(MutatingReqs) = 1
                    /\ \A n \in MutatingReqs : reqs[n].status \in 200..299
           /\ ~result.changed
                => \/ MutatingReqs = {}
                   \/ /\ Cardinality(MutatingReqs) = 1
                      /\ \A n \in MutatingReqs :
                            /\ reqs[n].method = "DELETE"
                            /\ reqs[n].status = 404

\* C27: a delete returned {changed: false} after its DELETE was answered 404.
C27_Witness ==
    /\ ReturnedNormally
    /\ call.op = "delete"
    /\ ~result.changed
    /\ Cardinality(MutatingReqs) = 1
    /\ reqs[Len(reqs)].status = 404

\* A write has returned {changed: false, id: ...}.
WriteUnchanged ==
    /\ ReturnedNormally
    /\ IsWrite(call)
    /\ ~result.changed

\* C28: a write that returns {changed: false, id: x} issued one request, a
\* GET answered 200 that showed record x (GET endpoint/x/ when the caller
\* gave pk = x, the list GET with x its one result otherwise), and x is not
\* null; on the creation path, where pk is unresolved and existing_data is
\* empty, write does not return without its POST.
C28_UnchangedHasId ==
    /\ WriteUnchanged
          => /\ result.id # None
             /\ result.id \in DOMAIN store
             /\ Len(reqs) = 1
             /\ reqs[1].method = "GET"
             /\ reqs[1].status = 200
             /\ IF call.pk # None
                THEN result.id = call.pk /\ reqs[1].pk = call.pk
                ELSE /\ reqs[1].pk = None
                     /\ reqs[1].count = 1
                     /\ existing_data["id"] = result.id
    /\ (ReturnedNormally /\ IsWrite(call) /\ pk = None /\ ~Truthy(existing_data))
          => /\ result.changed
             /\ reqs[Len(reqs)].method = "POST"

\* C28: a write without pk returned {changed: false} with the id of the
\* record its lookup found.
C28_Witness ==
    /\ WriteUnchanged
    /\ call.pk = None
    /\ result.id \in Ids

\* Another client deleted the record a write is to PATCH, after the GET of
\* the write returned it: only the deletion of record pk is taken while a
\* write with a resolved pk has its request due.
TargetDeleted ==
    /\ IsWrite(call)
    /\ pc \in {"send", "done"}
    /\ pk # None
    /\ raced

\* C29: a write whose target was deleted by another client between its GET
\* and its PATCH issues the PATCH, which is answered 404, raises NotFound
\* and issues nothing more: no POST creates the record again, whatever
\* create_on_missing is.
C29_WriteRace ==
    TargetDeleted
        => /\ pk \notin DOMAIN store
           /\ reqs[1].method = "GET"
           /\ reqs[1].status = 200
           /\ "POST" \notin Methods
           /\ pc = "done"
                 => /\ Len(reqs) = 2
                    /\ reqs[2].method = "PATCH"
                    /\ reqs[2].pk = pk
                    /\ reqs[2].status = 404
                    /\ result.exc = "NotFound"

\* C29: a write with create_on_missing=True found its record by lookup, lost
\* it to another client and ended with NotFound.
C29_Witness ==
    /\ TargetDeleted
    /\ pc = "done"
    /\ call.pk = None
    /\ call.create_on_missing
    /\ result.exc = "NotFound"

(***************************************************************************)
(* Two clients, each running one create with the same unique-field values  *)
(* against a store that holds no record.  The first client is the one of   *)
(* the state machine above; `peer` is the second.  The server processes    *)
(* one request at a time, in any order the two clients' steps allow.       *)
(***************************************************************************)

\* The unique-field values a create looks its record up by.
lookup_fields(kwargs) == read_params(kind, strip_none(kwargs))

\* The create of the other client, if it has begun, has the same
\* unique-field values as kwargs.
SameAs(other, kwargs) ==
    other.op = "create" => lookup_fields(other.kwargs) = lookup_fields(kwargs)

\* The first client calls create.
FirstCreate(fof, foe, kwargs) ==
    /\ lookup_fields(kwargs) # Empty
    /\ SameAs(peer.call, kwargs)
    /\ CreateCall(fof, foe, kwargs, 0)

\* The second client calls create: its write up to its write request.
PeerCreate(fof, foe, kwargs) ==
    /\ lookup_fields(kwargs) # Empty
    /\ SameAs(call, kwargs)
    /\ peer' = Client(Call("create", None, TRUE, fof, foe, FALSE, kwargs),
                      write(kind, store, None, TRUE, fof, foe, kwargs, 0))
    /\ UNCHANGED <<kind, store, nextId, call, pc, pk, existing_data, reqs,
                   result, raced, prev, settings_vars, job_vars, launch_vars>>

\* The POST or PATCH of the second client, and its return.
PeerSend ==
    /\ peer.pc = "send"
    /\ peer.pk = None => nextId <= MaxId
    /\ store' = write_send(kind, store, nextId, peer.pk, peer.call.kwargs,
                           0).store
    /\ nextId' = write_send(kind, store, nextId, peer.pk, peer.call.kwargs,
                            0).nextId
    /\ peer' = [peer EXCEPT
                  !.pc = "done",
                  !.reqs = Append(@, write_send(kind, store, nextId, peer.pk,
                                                peer.call.kwargs, 0).req),
                  !.result = write_send(kind, store, nextId, peer.pk,
                                        peer.call.kwargs, 0).result]
    /\ raced' = (pc = "send")
    /\ prev' = NoPrev
    /\ UNCHANGED <<kind, call, pc, pk, existing_data, reqs, result,
                   settings_vars, job_vars, launch_vars>>

NextTwoCreates ==
    \/ (pc = "idle" /\ \E kw \in KwargsOf(kind), fof, foe \in BOOLEAN :
                          FirstCreate(fof, foe, kw))
    \/ (pc = "send" /\ WriteSend(0))
    \/ (peer.pc = "idle" /\ \E kw \in KwargsOf(kind), fof, foe \in BOOLEAN :
                               PeerCreate(fof, foe, kw))
    \/ PeerSend

SpecTwoCreates == Init /\ [][NextTwoCreates]_vars

\* Both clients have called create.
BothCreate == call.op = "create" /\ peer.call.op = "create"

\* The client has issued a POST.
PostedBy(c) == \E n \in 1..Len(c.reqs) : c.reqs[n].method = "POST"

\* The first client, as a client record.
first == Client(call, Outcome(pc, pk, existing_data, reqs, result))

\* The records that have the unique-field values of the two creates.
Twins == Matches(store, lookup_fields(call.kwargs))

\* C30 as stated: of two creates with the same unique-field values, at most
\* one issues a POST and returns changed: true, and at most one record with
\* these values exists, however their requests interleave.
C30_AsStated ==
    BothCreate
        => /\ ~(PostedBy(first) /\ PostedBy(peer))
           /\ Cardinality(Twins) <= 1

\* C30: a create issues its POST only if its own lookup GET counted no
\* matching record; so of two creates with the same unique-field values the
\* one whose lookup GET the server processed after the POST of the other
\* issues no POST, and two records with these values exist only if both
\* lookup GETs were processed before either POST.
C30_CreateInterleaving ==
    BothCreate
        => /\ PostedBy(first) => reqs[1].count = 0
           /\ PostedBy(peer) => peer.reqs[1].count = 0
           /\ Cardinality(Twins) <= 2
           /\ Cardinality(Twins) = 2
                 => /\ reqs[1].count = 0
                    /\ peer.reqs[1].count = 0
                    /\ PostedBy(first)
                    /\ PostedBy(peer)
           /\ (pc = "done" /\ peer.pc = "done"
                 /\ (reqs[1].count > 0 \/ peer.reqs[1].count > 0))
                 => Cardinality(Twins) <= 1

\* C30: the second client looked up after the POST of the first, found its
\* record and ended without a POST.
C30_Witness ==
    /\ BothCreate
    /\ pc = "done"
    /\ peer.pc = "done"
    /\ PostedBy(first)
    /\ result.exc = ""
    /\ peer.reqs[1].count = 1
    /\ ~PostedBy(peer)
    /\ peer.result.exc = ""
    /\ Cardinality(Twins) = 1

====
